---- MODULE Spec2Model ----
(***************************************************************************)
(* Model of PupilTracker (python/pipeline/utils/eye_tracking.py): the      *)
(* per-frame candidate selection get_pupil_from_contours and the frame     *)
(* loop of track.                                                          *)
(*                                                                         *)
(* Numbers.  Every real-valued quantity is an integer count of 1/Den,      *)
(* with Den = W*H so that the normalisations x/W and y/H are exact.        *)
(* Quotients that are not multiples of 1/Den (ratio, area, dr) are         *)
(* compared by cross-multiplication; dx = sqrt(s) is compared through its  *)
(* square.  What cv2 computes from pixels (the contours of a frame, the    *)
(* ellipse fitted to a contour, the frame's standard deviation) and what   *)
(* goodness_of_fit computes from a contour are inputs of the model.        *)
(***************************************************************************)
EXTENDS Integers, Sequences, FiniteSets, TLC

MaxFrames == 3
MaxContours == 2
MaxFrameContours == 1

None == <<>>
Some(v) == <<v>>

Max2(a, b) == IF a >= b THEN a ELSE b
Min2(a, b) == IF a <= b THEN a ELSE b
Abs(a) == IF a >= 0 THEN a ELSE 0 - a
B2I(b) == IF b THEN 1 ELSE 0

(* eye_roi = [[row start, row end], [column start, column end]] *)
eye_roi == << <<1, 5>>, <<2, 10>> >>
H == eye_roi[1][2] - eye_roi[1][1]
W == eye_roi[2][2] - eye_roi[2][1]
Den == W * H

TrackOptions == <<"perc_weight", "perc_high", "perc_low", "contrast_threshold">>
SelOptions == <<"ratio_threshold", "relative_area_threshold", "error_threshold",
                "min_contour_len", "margin", "speed_threshold", "dr_threshold">>
Options == {TrackOptions[i] : i \in 1..Len(TrackOptions)}
             \cup {SelOptions[i] : i \in 1..Len(SelOptions)}

(* ratio 2.0, area 0.125, rmse 0.25, margin 0.125, speed 0.25, dr/r 0.5 *)
BaseParams ==
  [ratio_threshold |-> 2 * Den, relative_area_threshold |-> 4,
   error_threshold |-> 8, min_contour_len |-> 5, margin |-> 4,
   speed_threshold |-> 8, dr_threshold |-> 16,
   perc_weight |-> 16, perc_high |-> 98, perc_low |-> 2,
   contrast_threshold |-> 2]
ZeroContinuity == [BaseParams EXCEPT !.speed_threshold = 0, !.dr_threshold = 0]
Without(p, o) == [k \in (DOMAIN p) \ {o} |-> p[k]]
ParamChoices == {BaseParams, ZeroContinuity} \cup {Without(BaseParams, o) : o \in Options}
(* ratio 4.0 lets the elongated contour D through *)
LooseRatio == [BaseParams EXCEPT !.ratio_threshold = 4 * Den]
(* thresholds that put a contour of ContourSet exactly on a boundary:     *)
(* rmse of C = error_threshold and x of C = margin; x of B = 1 - margin;  *)
(* y of every contour = margin = 1 - margin                               *)
EdgeLow == [BaseParams EXCEPT !.error_threshold = 4, !.margin = 8]
EdgeHigh == [BaseParams EXCEPT !.margin = 12]
HalfMargin == [BaseParams EXCEPT !.margin = 16]
ScoringParams == {BaseParams, ZeroContinuity, LooseRatio, EdgeLow, EdgeHigh, HalfMargin}

FirstMissing(p, opts) ==
  LET miss == {i \in 1..Len(opts) : opts[i] \notin DOMAIN p}
  IN IF miss = {} THEN ""
     ELSE opts[CHOOSE i \in miss : \A k \in miss : i <= k]

(* A contour with what cv2.fitEllipse and goodness_of_fit return for it. *)
Cnt(id, n, x, y, a, b, e) ==
  [id |-> id, len |-> n, ellipse |-> << <<x, y>>, <<a, b>>, 0 >>, rmse |-> e]
ContourSet ==
  { Cnt("A", 6, 4, 2, 2, 3, 2),
    Cnt("B", 6, 5, 2, 3, 2, 2),
    Cnt("C", 6, 2, 2, 2, 2, 4),
    Cnt("D", 6, 4, 2, 1, 4, 0),
    Cnt("E", 3, 4, 2, 2, 3, 1),
    Cnt("F", 6, 4, 2, 0, 3, 1) }
Intensities == {1, 2}

RECURSIVE SeqsUpTo(_, _)
SeqsUpTo(S, n) ==
  IF n = 0 THEN {<<>>}
  ELSE LET shorter == SeqsUpTo(S, n - 1)
       IN shorter \cup {Append(s, x) : s \in {t \in shorter : Len(t) = n - 1}, x \in S}
(* the contour lists the selector is scored on, and those a frame of a run yields *)
ContourLists == SeqsUpTo(ContourSet, MaxContours)
FrameContourLists == SeqsUpTo(ContourSet, MaxFrameContours)

Inf == -1
ErrLess(curr_err, err) == err = Inf \/ curr_err < err

Axes(cnt) == cnt.ellipse[2]
MajorAxis(cnt) == Max2(Axes(cnt)[1], Axes(cnt)[2])
MinorAxis(cnt) == Min2(Axes(cnt)[1], Axes(cnt)[2])

(* np.array([x / shape[1], y / shape[0]]) *)
Center(cnt) ==
  << (cnt.ellipse[1][1] * Den) \div W, (cnt.ellipse[1][2] * Den) \div H >>

(* dx squared, in units of 1/Den^2 *)
Dx2(cnt, oc) ==
  IF oc = None THEN 0
  ELSE (Center(cnt)[1] - oc[1][1]) * (Center(cnt)[1] - oc[1][1])
       + (Center(cnt)[2] - oc[1][2]) * (Center(cnt)[2] - oc[1][2])

(* dr as the fraction <<numerator, denominator>> *)
Dr(cnt, orr) ==
  IF orr = None THEN <<0, 1>>
  ELSE <<Abs(MajorAxis(cnt) - orr[1]), orr[1]>>

(* a strict ratio test *)
Crit1_Strict(cnt, p) == MajorAxis(cnt) * Den < p.ratio_threshold * MinorAxis(cnt)

Crit1(cnt, p) == MajorAxis(cnt) * Den <= p.ratio_threshold * MinorAxis(cnt)
Crit2(cnt, p) == Axes(cnt)[1] * Axes(cnt)[2] * Den >= p.relative_area_threshold * H * W
Crit3(cnt, p) == cnt.rmse < p.error_threshold
Crit4(cnt, p) == p.margin < Center(cnt)[1] /\ Center(cnt)[1] < Den - p.margin
Crit5(cnt, p) == p.margin < Center(cnt)[2] /\ Center(cnt)[2] < Den - p.margin
(* a speed criterion that forgets the previous center *)
Crit6_NoSpeedLimit(cnt, oc, p) == p.speed_threshold > 0

Crit6(cnt, oc, p) ==
  p.speed_threshold > 0 /\ Dx2(cnt, oc) < p.speed_threshold * p.speed_threshold
Crit7(cnt, orr, p) == Dr(cnt, orr)[1] * Den < p.dr_threshold * Dr(cnt, orr)[2]

MatchingConditions(cnt, oc, orr, p) ==
  B2I(Crit1(cnt, p)) + B2I(Crit2(cnt, p)) + B2I(Crit3(cnt, p))
  + B2I(Crit4(cnt, p)) + B2I(Crit5(cnt, p))
  + B2I(Crit6(cnt, oc, p)) + B2I(Crit7(cnt, orr, p))

(* small_gray.shape = (rows, columns) *)
Shape == <<H, W>>

(* np.asarray(ellipse[0]) / np.asarray(small_gray.shape[::-1]), without the [::-1] *)
OldCenterOf_Unreversed(cnt) ==
  << (cnt.ellipse[1][1] * Den) \div Shape[1], (cnt.ellipse[1][2] * Den) \div Shape[2] >>

(* np.asarray(ellipse[0]) / np.asarray(small_gray.shape[::-1]) *)
OldCenterOf(cnt) ==
  LET rev == <<Shape[2], Shape[1]>>
  IN << (cnt.ellipse[1][1] * Den) \div rev[1], (cnt.ellipse[1][2] * Den) \div rev[2] >>

(* max(ellipse[1]) *)
OldROf(cnt) == Max2(cnt.ellipse[2][1], cnt.ellipse[2][2])

(* the two `continue`s at the head of the scan *)
Scored(cnt, p) == ~(cnt.len < p.min_contour_len) /\ MinorAxis(cnt) # 0

(* plausible slips of the acceptance test *)
IsBetter_PartialPass(curr_err, err, mc) == ErrLess(curr_err, err) /\ mc >= 6
IsBetter_LastOnTie(curr_err, err, mc) == (err = Inf \/ curr_err <= err) /\ mc = 7

IsBetter(curr_err, err, mc) == ErrLess(curr_err, err) /\ mc = 7

RECURSIVE ScanFrom(_, _, _, _, _, _, _)
ScanFrom(contours, j, err, best, oc, orr, p) ==
  IF j > Len(contours) THEN best
  ELSE LET cnt == contours[j]
       IN IF ~Scored(cnt, p)
          THEN ScanFrom(contours, j + 1, err, best, oc, orr, p)
          ELSE IF IsBetter(cnt.rmse, err, MatchingConditions(cnt, oc, orr, p))
               THEN ScanFrom(contours, j + 1, cnt.rmse, j, oc, orr, p)
               ELSE ScanFrom(contours, j + 1, err, best, oc, orr, p)

(* index in scan order of best_contour, 0 for None *)
get_pupil_from_contours(contours, oc, orr, p) ==
  ScanFrom(contours, 1, Inf, 0, oc, orr, p)

(* pd.DataFrame(results)['conditions'] exists only if a contour was scored *)
HasConditions(contours, p) == \E j \in 1..Len(contours) : Scored(contours[j], p)

VARIABLES ts2, params, status, exc, result, display, opened, no_frames, stream_len,
          fr_count, img_std, old_center, old_r, traces, q_pending, outcome,
          sel_calls, sel

vars == <<ts2, params, status, exc, result, display, opened, no_frames, stream_len,
          fr_count, img_std, old_center, old_r, traces, q_pending, outcome,
          sel_calls, sel>>

(* ---------------------------------------------------------------------- *)
(* ts2sec(ts, packet_length, samplingrate)                                  *)
(*                                                                          *)
(* The counter has TsBits bits here instead of 32, so that a full period    *)
(* fits the model checker's integers: the period is 2^TsBits and the bad    *)
(* marker 2^(TsBits-1) - 1.  Seconds are exact fractions <<num, den>>.      *)
(* ---------------------------------------------------------------------- *)
TsBits == 3
MaxTsLen == 4

Wrap == 2 ^ TsBits
BadMarker == 2 ^ (TsBits - 1) - 1
BadLimit == 10

TsValues == {0, 1, BadMarker, Wrap - 1}
(* sequences of BadLimit + 1 stamps of which at most one is not the marker *)
MostlyBad ==
  {[i \in 1..(BadLimit + 1) |-> BadMarker]} \cup
  {[i \in 1..(BadLimit + 1) |-> IF i = p THEN v ELSE BadMarker] :
      p \in 1..(BadLimit + 1), v \in TsValues \ {BadMarker}}
TsInputs == SeqsUpTo(TsValues, MaxTsLen) \cup MostlyBad
PacketLengths == 0..(MaxTsLen - 2)
Rates == {1, 2}

SetMin(S) == CHOOSE x \in S : \A y \in S : x <= y
SetMax(S) == CHOOSE x \in S : \A y \in S : x >= y

FracLess(p, q) == p[1] * q[2] < q[1] * p[2]

(* bad_idx = ts == 2**31 - 1 *)
BadIdx(ts) == [i \in 1..Len(ts) |-> ts[i] = BadMarker]
BadCount(b) == Cardinality({i \in DOMAIN b : b[i]})

(* np.where(np.diff(ts) < 0)[0], as positions 1..len-1 *)
WrapIdx(ts) == {i \in 1..(Len(ts) - 1) : ts[i + 1] - ts[i] < 0}

(* a period shorter by one tick *)
Unwrapped_ShortPeriod(ts, w) ==
  [i \in 1..Len(ts) |-> IF i > w THEN ts[i] + (Wrap - 1) ELSE ts[i]]

(* ts[wrap_idx[0] + 1:] += 2**32 *)
Unwrapped(ts, w) ==
  [i \in 1..Len(ts) |-> IF i > w THEN ts[i] + Wrap ELSE ts[i]]

(* s = ts / samplingrate *)
Seconds(ts, rate) == [i \in 1..Len(ts) |-> <<ts[i], rate>>]

(* np.any(np.diff(s) <= 0) *)
NotIncreasing(s) == \E i \in 1..(Len(s) - 1) : ~FracLess(s[i], s[i + 1])
(* np.where(np.diff(s) > 0)[0], as positions 1..len-1 *)
Diffs(s) == {i \in 1..(Len(s) - 1) : FracLess(s[i], s[i + 1])}
(* np.hstack((0, diffs + 1)), as positions 1..len *)
NotZero(s) == {1} \cup {i + 1 : i \in Diffs(s)}

(* iu_spline(x, v[x], k=1)(j) for the positions x = K, at least two of     *)
(* them: the straight line through the two knots around j, and the first   *)
(* or last segment prolonged outside the knots.  v holds integers over the *)
(* common denominator den.                                                 *)
Interp(K, v, j, den) ==
  LET above == {k \in K : k > j}
      below == {k \in K : k <= j}
      a == IF below = {} THEN SetMin(K)
           ELSE IF above = {} THEN SetMax(K \ {SetMax(K)})
           ELSE SetMax(below)
      b == IF below = {} THEN SetMin(K \ {SetMin(K)})
           ELSE IF above = {} THEN SetMax(K)
           ELSE SetMin(above)
  IN <<v[a] * (b - a) + (v[b] - v[a]) * (j - a), den * (b - a)>>

TsIdle ==
  [pc |-> "idle", ts_in |-> <<>>, packet_length |-> 0, samplingrate |-> 1,
   ts |-> <<>>, bad_idx |-> <<>>, n_wraps |-> 0, s |-> <<>>, exc |-> ""]

NoExc == [type |-> "", arg |-> ""]
KeyError(k) == [type |-> "KeyError", arg |-> k]
Aborted == [type |-> "PipelineException", arg |-> "Tracking aborted"]

(* PupilTracker(param) *)
Init ==
  /\ ts2 = TsIdle
  /\ params \in ParamChoices
  /\ status = "constructed"
  /\ exc = NoExc
  /\ result = None
  /\ display = FALSE
  /\ opened = FALSE
  /\ no_frames = 0
  /\ stream_len = 0
  /\ fr_count = 0
  /\ img_std = None
  /\ old_center = None
  /\ old_r = None
  /\ traces = <<>>
  /\ q_pending = FALSE
  /\ outcome = "none"
  /\ sel_calls = 0
  /\ sel = None

(* track(videofile, eye_roi, display) up to the loop head.  A file that   *)
(* cannot be opened has frame count 0; one that opens declares n frames   *)
(* and delivers m <= n of them before every read fails.                   *)
TrackStart(isopen, n, m, disp) ==
  /\ status = "constructed"
  /\ m <= n
  /\ IF FirstMissing(params, TrackOptions) # ""
     THEN /\ status' = "raised"
          /\ exc' = KeyError(FirstMissing(params, TrackOptions))
          /\ UNCHANGED <<display, opened, no_frames, stream_len>>
     ELSE /\ status' = "running"
          /\ exc' = exc
          /\ display' = disp
          /\ opened' = isopen
          /\ no_frames' = IF isopen THEN n ELSE 0
          /\ stream_len' = IF isopen THEN m ELSE 0
  /\ fr_count' = 0
  /\ old_center' = None
  /\ old_r' = None
  /\ traces' = <<>>
  /\ UNCHANGED <<ts2, params, result, img_std, q_pending, outcome, sel_calls, sel>>

(* the user presses 'q'; the key waits for the next cv2.waitKey *)
PressQ ==
  /\ status = "running"
  /\ ~q_pending
  /\ q_pending' = TRUE
  /\ UNCHANGED <<ts2, params, status, exc, result, display, opened, no_frames,
                 stream_len, fr_count, img_std, old_center, old_r, traces,
                 outcome, sel_calls, sel>>

(* cap.release(); return traces *)
Return ==
  /\ status' = "returned"
  /\ result' = Some(traces)
  /\ opened' = FALSE
  /\ UNCHANGED <<ts2, params, exc, display, no_frames, stream_len, fr_count, img_std,
                 old_center, old_r, traces, q_pending, outcome, sel_calls, sel>>

(* while cap.isOpened() is false *)
NotOpened ==
  /\ status = "running"
  /\ ~opened
  /\ Return

AtEnd_StopAtExhaustion == fr_count >= no_frames \/ fr_count >= stream_len

AtEnd == fr_count >= no_frames

ReachedEnd ==
  /\ status = "running"
  /\ opened
  /\ AtEnd
  /\ Return

InLoop == status = "running" /\ opened /\ ~AtEnd

(* `break` in place of `raise`: the loop would fall through to return *)
WaitKeyCheck_NoAbort ==
  /\ q_pending' = FALSE
  /\ UNCHANGED <<status, exc>>

(* cv2.waitKey(1) & 0xFF == ord('q') at the end of the loop body *)
WaitKeyCheck ==
  /\ q_pending' = FALSE
  /\ IF q_pending
     THEN status' = "raised" /\ exc' = Aborted
     ELSE UNCHANGED <<status, exc>>

DecodeRecord(id) == [frame_id |-> id]
FailureRecord(id, std) == [frame_id |-> id, frame_intensity |-> std]
(* eye_roi[::-1, 0] + ellipse[0] *)
EyeCenter(cnt) ==
  << eye_roi[2][1] + cnt.ellipse[1][1], eye_roi[1][1] + cnt.ellipse[1][2] >>
SuccessRecord_NoIntensity(id, std, cnt) ==
  [center |-> EyeCenter(cnt), major_r |-> MajorAxis(cnt),
   rotated_rect |-> <<cnt.ellipse[1][1], cnt.ellipse[1][2],
                      cnt.ellipse[2][1], cnt.ellipse[2][2], cnt.ellipse[3]>>,
   contour |-> cnt.id, frame_id |-> id]

SuccessRecord(id, std, cnt) ==
  [center |-> EyeCenter(cnt), major_r |-> MajorAxis(cnt),
   rotated_rect |-> <<cnt.ellipse[1][1], cnt.ellipse[1][2],
                      cnt.ellipse[2][1], cnt.ellipse[2][2], cnt.ellipse[3]>>,
   contour |-> cnt.id, frame_id |-> id, frame_intensity |-> std]

DecodeFailure_NoRecord ==
  /\ InLoop
  /\ fr_count' = fr_count + 1
  /\ outcome' = "decode"
  /\ UNCHANGED <<ts2, params, status, exc, result, display, opened, no_frames,
                 stream_len, img_std, old_center, old_r, traces, q_pending,
                 sel_calls, sel>>

DecodeFailure_Resets ==
  /\ InLoop
  /\ fr_count' = fr_count + 1
  /\ traces' = Append(traces, DecodeRecord(fr_count + 1))
  /\ old_center' = None
  /\ old_r' = None
  /\ outcome' = "decode"
  /\ UNCHANGED <<ts2, params, status, exc, result, display, opened, no_frames,
                 stream_len, img_std, q_pending, sel_calls, sel>>

(* a failed read that is recorded and tried again *)
DecodeFailure_Retry ==
  /\ InLoop
  /\ traces' = Append(traces, DecodeRecord(fr_count + 1))
  /\ outcome' = "decode"
  /\ UNCHANGED <<ts2, params, status, exc, result, display, opened, no_frames,
                 stream_len, fr_count, img_std, old_center, old_r, q_pending,
                 sel_calls, sel>>

(* cap.read() returns ret = False: a corrupt frame, or none left *)
DecodeFailure ==
  /\ InLoop
  /\ fr_count' = fr_count + 1
  /\ traces' = Append(traces, DecodeRecord(fr_count + 1))
  /\ outcome' = "decode"
  /\ UNCHANGED <<ts2, params, status, exc, result, display, opened, no_frames,
                 stream_len, img_std, old_center, old_r, q_pending, sel_calls, sel>>

(* a frame is delivered and np.std(gray) = std *)
Decoded(std) ==
  /\ InLoop
  /\ fr_count < stream_len
  /\ fr_count' = fr_count + 1
  /\ img_std' = Some(std)

LowContrast_Resets(std) ==
  /\ Decoded(std)
  /\ std < params.contrast_threshold
  /\ traces' = Append(traces, FailureRecord(fr_count + 1, std))
  /\ old_center' = None
  /\ old_r' = None
  /\ q_pending' = IF display THEN FALSE ELSE q_pending
  /\ outcome' = "lowcontrast"
  /\ UNCHANGED <<ts2, params, status, exc, result, display, opened, no_frames,
                 stream_len, sel_calls, sel>>

(* img_std < contrast_low; with display the cv2.waitKey(1) there takes a  *)
(* pending key and ignores it                                             *)
LowContrast(std) ==
  /\ Decoded(std)
  /\ std < params.contrast_threshold
  /\ traces' = Append(traces, FailureRecord(fr_count + 1, std))
  /\ q_pending' = IF display THEN FALSE ELSE q_pending
  /\ outcome' = "lowcontrast"
  /\ UNCHANGED <<ts2, params, status, exc, result, display, opened, no_frames,
                 stream_len, old_center, old_r, sel_calls, sel>>

(* a frame that reaches the call of get_pupil_from_contours *)
Selecting(std) ==
  /\ Decoded(std)
  /\ ~(std < params.contrast_threshold)
  /\ sel_calls' = sel_calls + 1

(* a selection option is missing: self._params[...] raises *)
ConfigKeyError(std) ==
  /\ Selecting(std)
  /\ FirstMissing(params, SelOptions) # ""
  /\ status' = "raised"
  /\ exc' = KeyError(FirstMissing(params, SelOptions))
  /\ outcome' = "raised"
  /\ UNCHANGED <<ts2, params, result, display, opened, no_frames, stream_len,
                 old_center, old_r, traces, q_pending, sel>>

(* best_ellipse is None and no contour was scored: df['conditions'] raises *)
ResultsKeyError(std, contours) ==
  /\ Selecting(std)
  /\ FirstMissing(params, SelOptions) = ""
  /\ ~HasConditions(contours, params)
  /\ get_pupil_from_contours(contours, old_center, old_r, params) = 0
  /\ status' = "raised"
  /\ exc' = KeyError("conditions")
  /\ outcome' = "raised"
  /\ UNCHANGED <<ts2, params, result, display, opened, no_frames, stream_len,
                 old_center, old_r, traces, q_pending, sel>>

NoDetection_KeepsState(std, contours) ==
  /\ Selecting(std)
  /\ FirstMissing(params, SelOptions) = ""
  /\ HasConditions(contours, params)
  /\ get_pupil_from_contours(contours, old_center, old_r, params) = 0
  /\ traces' = Append(traces, FailureRecord(fr_count + 1, std))
  /\ outcome' = "nodetect"
  /\ WaitKeyCheck
  /\ UNCHANGED <<ts2, params, result, display, opened, no_frames, stream_len,
                 old_center, old_r, sel>>

(* contour is None *)
NoDetection(std, contours) ==
  /\ Selecting(std)
  /\ FirstMissing(params, SelOptions) = ""
  /\ HasConditions(contours, params)
  /\ get_pupil_from_contours(contours, old_center, old_r, params) = 0
  /\ traces' = Append(traces, FailureRecord(fr_count + 1, std))
  /\ old_center' = None
  /\ old_r' = None
  /\ outcome' = "nodetect"
  /\ WaitKeyCheck
  /\ UNCHANGED <<ts2, params, result, display, opened, no_frames, stream_len, sel>>

Detection(std, contours) ==
  /\ Selecting(std)
  /\ FirstMissing(params, SelOptions) = ""
  /\ LET best == get_pupil_from_contours(contours, old_center, old_r, params)
         cnt == contours[best]
     IN /\ best # 0
        /\ traces' = Append(traces, SuccessRecord(fr_count + 1, std, cnt))
        /\ old_center' = Some(OldCenterOf(cnt))
        /\ old_r' = Some(OldROf(cnt))
  /\ outcome' = "detect"
  /\ WaitKeyCheck
  /\ UNCHANGED <<ts2, params, result, display, opened, no_frames, stream_len, sel>>

Next ==
  \/ \E isopen \in BOOLEAN, n \in 0..MaxFrames, m \in 0..MaxFrames, disp \in BOOLEAN :
       TrackStart(isopen, n, m, disp)
  \/ PressQ
  \/ NotOpened
  \/ ReachedEnd
  \/ DecodeFailure
  \/ \E std \in Intensities : LowContrast(std)
  \/ \E std \in Intensities : ConfigKeyError(std)
  \/ \E std \in Intensities, contours \in FrameContourLists : ResultsKeyError(std, contours)
  \/ \E std \in Intensities, contours \in FrameContourLists : NoDetection(std, contours)
  \/ \E std \in Intensities, contours \in FrameContourLists : Detection(std, contours)

Spec == Init /\ [][Next]_vars

(* track runs on its own thread of control: once called, each pass of the  *)
(* while loop (and its exit) is eventually executed; only the key press    *)
(* and the call of track itself are up to the environment.                 *)
LoopStep ==
  \/ NotOpened
  \/ ReachedEnd
  \/ DecodeFailure
  \/ \E std \in Intensities : LowContrast(std)
  \/ \E std \in Intensities : ConfigKeyError(std)
  \/ \E std \in Intensities, contours \in FrameContourLists : ResultsKeyError(std, contours)
  \/ \E std \in Intensities, contours \in FrameContourLists : NoDetection(std, contours)
  \/ \E std \in Intensities, contours \in FrameContourLists : Detection(std, contours)

LiveSpec == Init /\ [][Next]_vars /\ WF_vars(LoopStep)

(***************************************************************************)
(* The selector on its own: a tracker with a complete scoring              *)
(* configuration scores one contour list after another, each call seeing   *)
(* the TrackState the calls before it left (track, lines 350-360).         *)
(***************************************************************************)
Call(contours) ==
  LET best == get_pupil_from_contours(contours, old_center, old_r, params)
  IN [contours |-> contours, old_center |-> old_center, old_r |-> old_r,
      best |-> best, raised |-> (best = 0 /\ ~HasConditions(contours, params))]

SelInit ==
  /\ ts2 = TsIdle
  /\ params \in ScoringParams
  /\ status = "running"
  /\ exc = NoExc
  /\ result = None
  /\ display = FALSE
  /\ opened = TRUE
  /\ no_frames = 0
  /\ stream_len = 0
  /\ fr_count = 0
  /\ img_std = None
  /\ old_center = None
  /\ old_r = None
  /\ traces = <<>>
  /\ q_pending = FALSE
  /\ outcome = "none"
  /\ sel_calls = 0
  /\ sel = None

(* Every TrackState a call can start from is left by a call that started   *)
(* from the reset state (a winner passes the continuity criteria there     *)
(* too), so the calls scored are those that start from the reset state and *)
(* those that follow such a call.                                          *)
Score(contours) ==
  /\ IF sel = None THEN TRUE ELSE ~sel[1].raised /\ sel[1].old_center = None
  /\ LET call == Call(contours)
     IN /\ sel' = Some(call)
        /\ IF call.raised
           THEN outcome' = "raised" /\ UNCHANGED <<old_center, old_r>>
           ELSE IF call.best = 0
                THEN outcome' = "nodetect" /\ old_center' = None /\ old_r' = None
                ELSE /\ outcome' = "detect"
                     /\ old_center' = Some(OldCenterOf(contours[call.best]))
                     /\ old_r' = Some(OldROf(contours[call.best]))
  /\ UNCHANGED <<ts2, params, status, exc, result, display, opened, no_frames,
                 stream_len, fr_count, img_std, traces, q_pending, sel_calls>>

SelNext == \E contours \in ContourLists : Score(contours)

SelSpec == SelInit /\ [][SelNext]_vars

(* ts = ts.astype(float): ts2sec has been called *)
TsInit ==
  /\ \E ts \in TsInputs, pl \in PacketLengths, rate \in Rates :
       ts2 = [pc |-> "called", ts_in |-> ts, packet_length |-> pl,
              samplingrate |-> rate, ts |-> ts, bad_idx |-> <<>>,
              n_wraps |-> 0, s |-> <<>>, exc |-> ""]
  /\ params = BaseParams
  /\ status = "constructed"
  /\ exc = NoExc
  /\ result = None
  /\ display = FALSE
  /\ opened = FALSE
  /\ no_frames = 0
  /\ stream_len = 0
  /\ fr_count = 0
  /\ img_std = None
  /\ old_center = None
  /\ old_r = None
  /\ traces = <<>>
  /\ q_pending = FALSE
  /\ outcome = "none"
  /\ sel_calls = 0
  /\ sel = None

TsFrame ==
  UNCHANGED <<params, status, exc, result, display, opened, no_frames,
              stream_len, fr_count, img_std, old_center, old_r, traces,
              q_pending, outcome, sel_calls, sel>>

(* more than ten bad markers: raise PipelineException('Bad camera ts...') *)
TsTooManyBad ==
  /\ ts2.pc = "called"
  /\ BadCount(BadIdx(ts2.ts)) > BadLimit
  /\ ts2' = [ts2 EXCEPT !.pc = "raised", !.bad_idx = BadIdx(ts2.ts),
                        !.exc = "PipelineException"]
  /\ TsFrame

(* at most ten: the body of the if is skipped and ts is left as it is *)
TsBadMarked ==
  /\ ts2.pc = "called"
  /\ BadCount(BadIdx(ts2.ts)) <= BadLimit
  /\ ts2' = [ts2 EXCEPT !.pc = "unwrap", !.bad_idx = BadIdx(ts2.ts)]
  /\ TsFrame

(* one pass of the wraparound loop *)
TsUnwrapStep ==
  /\ ts2.pc = "unwrap"
  /\ WrapIdx(ts2.ts) # {}
  /\ ts2' = [ts2 EXCEPT !.ts = Unwrapped(ts2.ts, SetMin(WrapIdx(ts2.ts))),
                        !.n_wraps = ts2.n_wraps + 1]
  /\ TsFrame

(* the loop is left; s = ts / samplingrate *)
TsUnwrapDone ==
  /\ ts2.pc = "unwrap"
  /\ WrapIdx(ts2.ts) = {}
  /\ ts2' = [ts2 EXCEPT !.pc = "seconds", !.s = Seconds(ts2.ts, ts2.samplingrate)]
  /\ TsFrame

(* strictly increasing seconds are returned as they are *)
TsReturnPlain ==
  /\ ts2.pc = "seconds"
  /\ ~NotIncreasing(ts2.s)
  /\ ts2' = [ts2 EXCEPT !.pc = "returned"]
  /\ TsFrame

(* no increase at all: diffs[0] does not exist *)
TsIndexError ==
  /\ ts2.pc = "seconds"
  /\ NotIncreasing(ts2.s)
  /\ Diffs(ts2.s) = {}
  /\ ts2' = [ts2 EXCEPT !.pc = "raised", !.exc = "IndexError"]
  /\ TsFrame

(* assert packet_length == diffs[0] + 1 fails *)
TsAssertionError ==
  /\ ts2.pc = "seconds"
  /\ NotIncreasing(ts2.s)
  /\ Diffs(ts2.s) # {}
  /\ ts2.packet_length # SetMin(Diffs(ts2.s))
  /\ ts2' = [ts2 EXCEPT !.pc = "raised", !.exc = "AssertionError"]
  /\ TsFrame

(* packeted stamps: interpolate between the first stamps of the packets *)
TsInterpolate ==
  /\ ts2.pc = "seconds"
  /\ NotIncreasing(ts2.s)
  /\ Diffs(ts2.s) # {}
  /\ ts2.packet_length = SetMin(Diffs(ts2.s))
  /\ ts2' = [ts2 EXCEPT !.pc = "returned",
                        !.s = [j \in 1..Len(ts2.s) |->
                                 Interp(NotZero(ts2.s), ts2.ts, j, ts2.samplingrate)]]
  /\ TsFrame

TsNext ==
  \/ TsTooManyBad
  \/ TsBadMarked
  \/ TsUnwrapStep
  \/ TsUnwrapDone
  \/ TsReturnPlain
  \/ TsIndexError
  \/ TsAssertionError
  \/ TsInterpolate

TsSpec == TsInit /\ [][TsNext]_vars

(* ts2sec is one sequential call: its next statement is always executed *)
TsLiveSpec == TsInit /\ [][TsNext]_vars /\ WF_vars(TsNext)

TypeOK ==
  /\ status \in {"constructed", "running", "returned", "raised"}
  /\ fr_count \in 0..MaxFrames
  /\ Len(traces) <= MaxFrames
  /\ sel_calls <= fr_count

IsDecodeRecord(r) == DOMAIN r = {"frame_id"}
IsFailureRecord(r) == DOMAIN r = {"frame_id", "frame_intensity"}
IsSuccessRecord(r) == "center" \in DOMAIN r

(* C1: the trace holds one record per frame read, in frame order, with     *)
(* frame_id = 1..k and k <= N, at every loop head and at every exit of     *)
(* track through return or 'Tracking aborted'; on return it has exactly N  *)
(* records.  (A KeyError leaves track in the middle of an iteration, the   *)
(* frame just read without a record; the ids 1..k and k <= N hold there    *)
(* too.)                                                                   *)
C1_OneRecordPerFrame ==
  /\ \A i \in 1..Len(traces) : traces[i].frame_id = i
  /\ Len(traces) <= fr_count
  /\ fr_count <= no_frames
  /\ exc.type # "KeyError" => Len(traces) = fr_count
  /\ status = "returned" => Len(traces) = no_frames

C1_Witness ==
  /\ status = "returned"
  /\ no_frames >= 3
  /\ Len(traces) = no_frames
  /\ \E i \in 1..Len(traces) : IsDecodeRecord(traces[i])
  /\ \E i \in 1..Len(traces) : IsFailureRecord(traces[i])
  /\ \E i \in 1..Len(traces) : IsSuccessRecord(traces[i])

SelMC(j) ==
  MatchingConditions(sel[1].contours[j], sel[1].old_center, sel[1].old_r, params)
SelScored == {j \in 1..Len(sel[1].contours) : Scored(sel[1].contours[j], params)}
SelFull == {j \in SelScored : SelMC(j) = 7}
SelRmse(j) == sel[1].contours[j].rmse

(* C2: the winner of get_pupil_from_contours always satisfies all 7        *)
(* criteria, and when no scored candidate satisfies all 7 there is no      *)
(* winner.                                                                 *)
C2_AllSevenRequired ==
  IF sel = None THEN TRUE
  ELSE /\ sel[1].best # 0 => sel[1].best \in SelFull
       /\ SelFull = {} => sel[1].best = 0

(* a 6-of-7 candidate with a lower rmse stands next to the 7-of-7 winner *)
C2_Witness ==
  IF sel = None THEN FALSE
  ELSE \E i \in SelScored, j \in SelFull :
         /\ SelMC(i) = 6
         /\ SelRmse(i) < SelRmse(j)
         /\ sel[1].best = j

(* C3: when some candidate satisfies all 7 criteria the winner is the one  *)
(* of them with the least rmse, the first in scan order among equals.      *)
C3_LeastRmseFirst ==
  IF sel = None THEN TRUE
  ELSE SelFull # {} =>
         /\ sel[1].best \in SelFull
         /\ \A j \in SelFull :
              \/ SelRmse(sel[1].best) < SelRmse(j)
              \/ SelRmse(sel[1].best) = SelRmse(j) /\ sel[1].best <= j

(* two full-pass candidates tie on rmse and the first one wins *)
C3_Witness ==
  IF sel = None THEN FALSE
  ELSE \E i \in SelFull, j \in SelFull :
         /\ i < j
         /\ SelRmse(i) = SelRmse(j)
         /\ sel[1].best = i

(* C4: right after a frame that ends as NoDetection the previous center    *)
(* and radius are both unset, and scoring against that state gives every   *)
(* candidate dx = 0 and dr/r = 0, which pass criteria 6 and 7 whenever the *)
(* thresholds are positive.                                                *)
C4_ResetAfterNoDetection ==
  outcome = "nodetect" =>
    /\ old_center = None
    /\ old_r = None
    /\ \A c \in ContourSet :
         /\ Dx2(c, old_center) = 0
         /\ Dr(c, old_r)[1] = 0
         /\ params.speed_threshold > 0 => Crit6(c, old_center, params)
         /\ params.dr_threshold > 0 => Crit7(c, old_r, params)

(* a NoDetection frame right after a success, under positive thresholds *)
C4_Witness ==
  /\ outcome = "nodetect"
  /\ Len(traces) >= 2
  /\ IsSuccessRecord(traces[Len(traces) - 1])
  /\ IsFailureRecord(traces[Len(traces)])
  /\ params.speed_threshold > 0
  /\ params.dr_threshold > 0

(* C5: track raises only on cancellation or on a missing option, never     *)
(* because of one frame.                                                   *)
C5_NoRaiseOnBadFrame ==
  status = "raised" =>
    \/ exc = Aborted
    \/ exc.type = "KeyError" /\ exc.arg \in Options

(* C6: on cancellation the caller obtains the records accumulated so far. *)
C6_PartialTraceReturned ==
  exc = Aborted => result = Some(traces)

(* C7: a frame whose intensity is below contrast_threshold appends the     *)
(* failure record with that intensity, calls no selection and leaves the   *)
(* previous center and radius as they were; a frame that does reach        *)
(* selection is not below the threshold.                                   *)
C7_LowContrastFrame ==
  [][ /\ (outcome' = "lowcontrast" /\ fr_count' = fr_count + 1) =>
           /\ img_std' # None
           /\ img_std'[1] < params.contrast_threshold
           /\ traces' = Append(traces, [frame_id |-> fr_count + 1,
                                        frame_intensity |-> img_std'[1]])
           /\ sel_calls' = sel_calls
           /\ old_center' = old_center
           /\ old_r' = old_r
      /\ sel_calls' # sel_calls => ~(img_std'[1] < params.contrast_threshold)
    ]_vars

(* a low-contrast frame passed while a detection was remembered *)
C7_Witness ==
  /\ outcome = "lowcontrast"
  /\ Len(traces) >= 2
  /\ IsSuccessRecord(traces[Len(traces) - 1])
  /\ IsFailureRecord(traces[Len(traces)])
  /\ old_center # None
  /\ old_r # None

(* C8: a frame that fails to decode appends a record with frame_id only,   *)
(* leaves the previous center and radius unchanged, raises nothing and     *)
(* leaves the loop running.                                                *)
C8_DecodeFailureFrame ==
  [][ (outcome' = "decode" /\ fr_count' = fr_count + 1) =>
        /\ traces' = Append(traces, [frame_id |-> fr_count + 1])
        /\ old_center' = old_center
        /\ old_r' = old_r
        /\ sel_calls' = sel_calls
        /\ status' = "running"
        /\ exc' = NoExc
    ]_vars

(* detection, decode failure, and the loop went on to a detection *)
C8_Witness ==
  /\ Len(traces) >= 3
  /\ IsSuccessRecord(traces[Len(traces) - 2])
  /\ IsDecodeRecord(traces[Len(traces) - 1])
  /\ IsSuccessRecord(traces[Len(traces)])

(* C9 as stated: a source exhausted after m < N frames ends the loop with  *)
(* exactly m records.                                                      *)
C9_StopsAtExhaustion ==
  (status = "returned" /\ stream_len < no_frames) => Len(traces) = stream_len

(* C9 amended: every read after the source is exhausted is recorded as a   *)
(* decode failure (frame_id only), and on return the trace has exactly N   *)
(* records.                                                                *)
C9_PadsAfterExhaustion ==
  /\ \A i \in 1..Len(traces) : i > stream_len => IsDecodeRecord(traces[i])
  /\ status = "returned" => Len(traces) = no_frames

C9_Witness ==
  /\ status = "returned"
  /\ stream_len >= 1
  /\ stream_len < no_frames
  /\ Len(traces) = no_frames
  /\ IsDecodeRecord(traces[Len(traces)])

(* C10: a cancellation pending while a frame is processed stops the run    *)
(* before the next frame is read, whatever the frame's outcome.            *)
C10_CheckedEveryFrame ==
  [][ (status = "running" /\ q_pending /\ fr_count' = fr_count + 1)
        => status' # "running" ]_vars

(* C11: once the waitKey check sees 'q' the run ends there with           *)
(* PipelineException 'Tracking aborted': no frame is read and no record    *)
(* appended afterwards, nothing is returned, and a run that returns ends   *)
(* without an exception.                                                   *)
C11_AbortTerminates ==
  [][ /\ (q_pending /\ outcome' \in {"nodetect", "detect"} /\ fr_count' = fr_count + 1)
           => (status' = "raised" /\ exc' = Aborted /\ result' = None)
      /\ exc = Aborted => UNCHANGED <<fr_count, traces, status, exc, result>>
      /\ exc' = Aborted => (status' = "raised" /\ result' = None)
      /\ status' = "returned" => exc' = NoExc
    ]_vars

(* aborted with frames of the video still unread *)
C11_Witness ==
  /\ exc = Aborted
  /\ status = "raised"
  /\ Len(traces) >= 1
  /\ fr_count < no_frames

(* C12: a missing configuration option raises before any frame is read     *)
(* and before any record is produced.                                      *)
C12_RaisedBeforeTracking ==
  (exc.type = "KeyError" /\ exc.arg \in Options) => (fr_count = 0 /\ traces = <<>>)

IsFullSuccessRecord(r) ==
  DOMAIN r = {"frame_id", "frame_intensity", "center", "major_r", "rotated_rect", "contour"}

(* C13 as stated: every record is a {frame_id, frame_intensity} failure    *)
(* record or a success record with all fields.                             *)
C13_TwoShapes ==
  \A i \in 1..Len(traces) : IsFailureRecord(traces[i]) \/ IsFullSuccessRecord(traces[i])

(* C13 amended: every record has one of three shapes: frame_id only (the   *)
(* frame did not decode), frame_id with frame_intensity, or all success    *)
(* fields; a record without frame_intensity has no other field either.     *)
C13_ThreeShapes ==
  \A i \in 1..Len(traces) :
    \/ IsDecodeRecord(traces[i])
    \/ IsFailureRecord(traces[i])
    \/ IsFullSuccessRecord(traces[i])

(* the three shapes side by side in one trace *)
C13_Witness ==
  /\ Len(traces) >= 3
  /\ IsDecodeRecord(traces[1])
  /\ IsFullSuccessRecord(traces[2])
  /\ IsFailureRecord(traces[3])

(* C14: when the previous center is set (the last scored frame was a       *)
(* success) and every scored candidate of the frame lies at a dx not below *)
(* speed_threshold from it, the frame has no winner: it ends as            *)
(* NoDetection with the previous center and radius unset.                  *)
C14_JumpIsNoDetection ==
  IF sel = None THEN TRUE
  ELSE ( /\ sel[1].old_center # None
         /\ SelScored # {}
         /\ \A j \in SelScored :
              \/ params.speed_threshold <= 0
              \/ Dx2(sel[1].contours[j], sel[1].old_center)
                   >= params.speed_threshold * params.speed_threshold )
       => ( /\ sel[1].best = 0
            /\ outcome = "nodetect"
            /\ old_center = None
            /\ old_r = None )

(* a candidate that fails the speed criterion alone, after a success *)
C14_Witness ==
  IF sel = None THEN FALSE
  ELSE /\ sel[1].old_center # None
       /\ params.speed_threshold > 0
       /\ outcome = "nodetect"
       /\ \E j \in SelScored :
            /\ SelMC(j) = 6
            /\ Dx2(sel[1].contours[j], sel[1].old_center)
                 >= params.speed_threshold * params.speed_threshold
       /\ \A j \in SelScored :
            Dx2(sel[1].contours[j], sel[1].old_center)
              >= params.speed_threshold * params.speed_threshold

LastRecord == traces[Len(traces)]

(* C17: after a success the previous center is the winner's center         *)
(* divided by (ROI width, ROI height), the previous radius its major axis, *)
(* both as get_pupil_from_contours computes them for a candidate, so the   *)
(* same contour scored next has dx = 0 and dr/r = 0; the record's center   *)
(* is the ROI-relative center plus (column start, row start).              *)
C17_TrackStateOnSuccess ==
  outcome = "detect" =>
    LET x == LastRecord.rotated_rect[1]
        y == LastRecord.rotated_rect[2]
    IN /\ old_center # None
       /\ old_r # None
       /\ old_center[1][1] * W = x * Den
       /\ old_center[1][2] * H = y * Den
       /\ old_r[1] = Max2(LastRecord.rotated_rect[3], LastRecord.rotated_rect[4])
       /\ old_r[1] = LastRecord.major_r
       /\ LastRecord.center = <<x + eye_roi[2][1], y + eye_roi[1][1]>>
       /\ \A c \in ContourSet :
            c.id = LastRecord.contour =>
              /\ old_center[1] = Center(c)
              /\ old_r[1] = MajorAxis(c)
              /\ Dx2(c, old_center) = 0
              /\ Dr(c, old_r)[1] = 0

(* a success whose center has different x and y, in a ROI that is not square *)
C17_Witness ==
  /\ outcome = "detect"
  /\ status = "running"
  /\ LastRecord.rotated_rect[1] # LastRecord.rotated_rect[2]
  /\ LastRecord.rotated_rect[3] # LastRecord.rotated_rect[4]
  /\ W # H
  /\ eye_roi[1][1] # eye_roi[2][1]

(* the frames so far that reached candidate selection and were recorded *)
SelectionFrames ==
  {i \in 1..Len(traces) :
     /\ "frame_intensity" \in DOMAIN traces[i]
     /\ ~(traces[i].frame_intensity < params.contrast_threshold)}
LastSelectionFrame ==
  CHOOSE i \in SelectionFrames : \A k \in SelectionFrames : k <= i

(* C19: at every loop head the previous center and radius are both set or  *)
(* both unset; they are set exactly when the most recent frame that        *)
(* reached selection was a success, and then hold that frame's normalized  *)
(* center and major radius, however many decode-failure and low-contrast   *)
(* frames came after it.                                                   *)
C19_TrackStateInvariant ==
  status = "running" =>
    /\ (old_center = None) <=> (old_r = None)
    /\ IF SelectionFrames = {} THEN old_center = None
       ELSE LET rec == traces[LastSelectionFrame]
            IN IF IsSuccessRecord(rec)
               THEN /\ old_center = Some(<< (rec.rotated_rect[1] * Den) \div W,
                                            (rec.rotated_rect[2] * Den) \div H >>)
                    /\ old_r = Some(rec.major_r)
               ELSE old_center = None

(* a detection two frames old, behind a decode failure and a low-contrast frame *)
C19_Witness ==
  /\ status = "running"
  /\ Len(traces) >= 3
  /\ IsSuccessRecord(traces[Len(traces) - 2])
  /\ \/ IsDecodeRecord(traces[Len(traces) - 1]) /\ IsFailureRecord(traces[Len(traces)])
     \/ IsFailureRecord(traces[Len(traces) - 1]) /\ IsDecodeRecord(traces[Len(traces)])
  /\ old_center # None
  /\ old_r # None

(* the quantities of candidate j of the last call, from the raw ellipse *)
SelRatioCmp(j) ==
  LET ax == sel[1].contours[j].ellipse[2]
  IN Max2(ax[1], ax[2]) * Den - params.ratio_threshold * Min2(ax[1], ax[2])
SelAreaCmp(j) ==
  LET ax == sel[1].contours[j].ellipse[2]
  IN ax[1] * ax[2] * Den - params.relative_area_threshold * W * H
SelCx(j) == (sel[1].contours[j].ellipse[1][1] * Den) \div W
SelCy(j) == (sel[1].contours[j].ellipse[1][2] * Den) \div H
SelDx2(j) ==
  IF sel[1].old_center = None THEN 0
  ELSE (SelCx(j) - sel[1].old_center[1][1]) * (SelCx(j) - sel[1].old_center[1][1])
       + (SelCy(j) - sel[1].old_center[1][2]) * (SelCy(j) - sel[1].old_center[1][2])
SelDrCmp(j) ==
  IF sel[1].old_r = None THEN 0 - params.dr_threshold
  ELSE LET ax == sel[1].contours[j].ellipse[2]
       IN Abs(Max2(ax[1], ax[2]) - sel[1].old_r[1]) * Den
            - params.dr_threshold * sel[1].old_r[1]

(* the number of criteria candidate j satisfies, boundaries as stated *)
SelSatisfied(j) ==
  B2I(SelRatioCmp(j) < 0 \/ SelRatioCmp(j) = 0)
  + B2I(SelAreaCmp(j) > 0 \/ SelAreaCmp(j) = 0)
  + B2I(SelRmse(j) < params.error_threshold /\ SelRmse(j) # params.error_threshold)
  + B2I(/\ SelCx(j) # params.margin
        /\ SelCx(j) # Den - params.margin
        /\ params.margin < SelCx(j)
        /\ SelCx(j) < Den - params.margin)
  + B2I(/\ SelCy(j) # params.margin
        /\ SelCy(j) # Den - params.margin
        /\ params.margin < SelCy(j)
        /\ SelCy(j) < Den - params.margin)
  + B2I(/\ params.speed_threshold > 0
        /\ SelDx2(j) # params.speed_threshold * params.speed_threshold
        /\ SelDx2(j) < params.speed_threshold * params.speed_threshold)
  + B2I(SelDrCmp(j) # 0 /\ SelDrCmp(j) < 0)

(* C18: the pass-count of every scored candidate is the number of the      *)
(* seven criteria it satisfies, where a ratio or an area equal to its      *)
(* threshold passes and an rmse, a center coordinate (margin or            *)
(* 1 - margin), a dx or a dr/r equal to its threshold fails.               *)
C18_PassCount ==
  IF sel = None THEN TRUE
  ELSE \A j \in SelScored : SelMC(j) = SelSatisfied(j)

(* a candidate whose ratio and area both equal their thresholds passes all 7 *)
C18_Witness ==
  IF sel = None THEN FALSE
  ELSE \E j \in SelScored :
         /\ SelRatioCmp(j) = 0
         /\ SelAreaCmp(j) = 0
         /\ SelMC(j) = 7
         /\ sel[1].best = j

(* C15: every step of a running track other than a key press either ends  *)
(* the run or reads exactly one new frame, the frame counter never exceeds *)
(* the declared frame count, and a running track eventually stops.         *)
C15_Terminates ==
  /\ [][ (status = "running" /\ ~(q_pending' /\ ~q_pending))
           => \/ status' # "running"
              \/ fr_count' = fr_count + 1 /\ fr_count' <= no_frames ]_vars
  /\ (status = "running") ~> (status # "running")

(* a run that returned after the full number of iterations *)
C15_Witness ==
  /\ status = "returned"
  /\ no_frames >= 3
  /\ fr_count = no_frames
  /\ sel_calls >= 2

(* C16: ts2sec makes a monotonic time base: every element of ts is its     *)
(* raw value plus a multiple of the counter period, after the wraparound   *)
(* loop no element is smaller than its predecessor, the seconds sequence   *)
(* ts2sec returns has no decreasing step, and the wraparound loop is left. *)
C16_MonotonicTimeBase ==
  /\ [](\A i \in 1..Len(ts2.ts) :
           /\ ts2.ts[i] >= ts2.ts_in[i]
           /\ (ts2.ts[i] - ts2.ts_in[i]) % Wrap = 0)
  /\ [](ts2.pc \in {"seconds", "returned"}
          => /\ BadCount(ts2.bad_idx) <= BadLimit
             /\ \A i \in 1..(Len(ts2.ts) - 1) : ts2.ts[i] <= ts2.ts[i + 1])
  /\ [](ts2.pc = "returned"
          => /\ Len(ts2.s) = Len(ts2.ts_in)
             /\ \A i \in 1..(Len(ts2.s) - 1) : ~FracLess(ts2.s[i + 1], ts2.s[i]))
  /\ (ts2.pc = "unwrap") ~> (ts2.pc # "unwrap")

(* a returned, interpolated time base of stamps that wrapped around *)
C16_Witness ==
  /\ ts2.pc = "returned"
  /\ ts2.n_wraps >= 1
  /\ \E i \in 1..Len(ts2.ts) : ts2.ts[i] >= ts2.ts_in[i] + Wrap
  /\ \E i \in 1..Len(ts2.s) : ts2.s[i][2] # ts2.samplingrate

(* positions of the input that do not hold the bad marker *)
NonBad(ts) == {i \in 1..Len(ts) : ts[i] # BadMarker}

(* C20: on entry to the wraparound loop bad_idx marks exactly the input    *)
(* positions that held the bad marker, and each such position of ts holds  *)
(* the linear estimate interpolated from the entries that are not bad.     *)
C20_BadReplaced ==
  (ts2.pc = "unwrap" /\ ts2.n_wraps = 0)
    => /\ ts2.bad_idx = [i \in 1..Len(ts2.ts_in) |-> ts2.ts_in[i] = BadMarker]
       /\ Cardinality(NonBad(ts2.ts_in)) >= 2
            => \A i \in 1..Len(ts2.ts_in) :
                 ts2.ts_in[i] = BadMarker
                   => LET est == Interp(NonBad(ts2.ts_in), ts2.ts_in, i, 1)
                      IN ts2.ts[i] * est[2] = est[1]

====
